---- MODULE Spec2Model ----
(***************************************************************************)
(* A model of the SNPX client (src/snpx_client.py): the session object     *)
(* SnpxClient with its assignment table and socket, the digital signal     *)
(* codec and the operations built on them.                                 *)
(*                                                                         *)
(* Spec      the client as a state machine: connect, disconnect, set_asg,  *)
(*           read_sys_var, write_sys_var, digital read/write, position     *)
(*           read.  A handler is one action; the outcome of each of its    *)
(*           socket calls is chosen by the environment.                    *)
(* SpecAlloc one connection, with a richer choice of names, descriptors    *)
(*           and explicit assignment numbers for the allocator.            *)
(* SpecFill  the session of a caller that connects and asks for one new    *)
(*           variable after the other until the window is full.            *)
(* SpecFit   get_next_asg_num applied to tables and sizes drawn from       *)
(*           FitTables and 1..80.                                          *)
(* SpecCodec DigitalSignal.write and _decode_digital_outputs applied to    *)
(*           boolean sequences drawn from DigitalInputs.                   *)
(* SpecDecode _decode_digital_outputs applied to responses and counts      *)
(*           drawn from DecodeBytes, DecodeTexts and DecodeCounts.         *)
(* SpecVar   the value encoding of write_sys_var and the decoding of       *)
(*           read_sys_var applied to descriptors and values drawn from     *)
(*           VarInputs.                                                    *)
(* SpecRecv  _recv_snpx_packet, one receive per step, followed by          *)
(*           read_sys_var's decoding of what it returned; SpecRecvFair is  *)
(*           SpecRecv in which a receive that was called does come back.   *)
(* SpecPos   the decoding of PositionData.read applied to responses of     *)
(*           every length from 0 to 150 bytes.                             *)
(***************************************************************************)
EXTENDS Integers, Sequences, FiniteSets, TLC

VARIABLES
    sock,       \* self.socket: "none" | "unconnected" | "open" | "closed"
    sys_vars,   \* self._sys_vars: a dict, here a function on the assigned names
    pending,    \* requests sent on the socket whose response was not yet received
    asgSent,    \* per name: SETASG commands sent on the current connection
    hs,         \* handshake frames sent on the current connection (0..3)
    sig,        \* the signal objects' socket: "none" | "current" | "stale"
    up,         \* the caller's view: connect() returned normally, no disconnect since
    last,       \* what the last handler call did (its outcome, as the caller sees it)
    dphase,     \* codec: "idle" | "input" | "noop" | "raised" | "sent" | "decoded"
    dvalue,     \* codec: the boolean sequence given to DigitalSignal.write
    dframe,     \* codec: the frame DigitalSignal.write sent (<<>>: nothing sent)
    dresp,      \* codec: the response handed to the decoder
    dbits,      \* codec: what the decoder returned
    fit,        \* allocator scan: the size asked for and what the scan returned
    dec,        \* decoder call: the response, the count asked for, what it returned
    var,        \* value codec: descriptor, value, the bytes written, the value read
    rcv,        \* receive helper: the packet, the payload so far, how it ended
    joints      \* position read: the response and the joint values made of it

svars == <<sock, sys_vars, pending, asgSent, hs, sig, up, last>>
dvars == <<dphase, dvalue, dframe, dresp, dbits>>
pvars == <<dec, var, rcv, joints>>
vars == <<sock, sys_vars, pending, asgSent, hs, sig, up, last,
          dphase, dvalue, dframe, dresp, dbits, fit, dec, var, rcv, joints>>

----------------------------------------------------------------------------
(* Bounds of the model *)

\* A receive may time out only while at most this many requests are unanswered.
MaxPending == 1

\* The caller asks for at most this many variables of its own, one after the
\* other (SpecFill).
MaxVars == 16

----------------------------------------------------------------------------
(* Program constants and types *)

\* The register window: assignment numbers are 1..ASG_MAX.
ASG_MAX == 80

FanucVariable(size, multiply) == [size |-> size, multiply |-> multiply]

INT == FanucVariable(2, 1)
REAL == FanucVariable(2, 0)
STRING_TYPE == FanucVariable(80, 0)
\* The descriptor init_signals assigns the position variable with.
POS_TYPE == FanucVariable(50, 0)
POS_NAME == "POS[G1:0] 0.0"

\* Python's None, and an int given where None is allowed.
None == [given |-> FALSE]
Some(k) == [given |-> TRUE, num |-> k]

\* The k-th variable a caller that fills the window asks for.
FillName(k) == "$ANGTOL[" \o ToString(k) \o "]"

\* Every name the model knows: the position variable and the caller's.
Names == {POS_NAME, "$ANGTOL[1]", "$AC_CRC_ACCO[1]"} \cup {FillName(k) : k \in 1..MaxVars}

\* The inputs the session's environment draws from (Spec).
SessionNames == {"$ANGTOL[1]"}
SessionTypes == {INT, STRING_TYPE}
SessionAsgNums == {None, Some(1), Some(79)}

\* The inputs the allocator's environment draws from (SpecAlloc):
\* VariableTypes plus descriptors a caller builds (1 word, 29 words).
AllocNames == {"$ANGTOL[1]", "$AC_CRC_ACCO[1]"}
AllocTypes == {INT, STRING_TYPE, FanucVariable(1, 0), FanucVariable(29, 0)}
AllocAsgNums == {None} \cup {Some(k) : k \in {0, 1, 52, 79, 81}}

----------------------------------------------------------------------------
(* The assignment allocator *)

\* The mutant drops the test that the range ends inside the window.
check_if_asg_avail_noend(tab, num, size) ==
    IF num < 1 \/ num > ASG_MAX THEN FALSE
    ELSE \A n \in DOMAIN tab :
            ~(num < tab[n].index + tab[n].size /\ num + size > tab[n].index)

\* The mutant tests the overlap with <= on the wrong side: a range that ends
\* where an entry begins is still free, one that begins inside an entry is not
\* always seen.
check_if_asg_avail_offbyone(tab, num, size) ==
    IF num < 1 \/ num > ASG_MAX THEN FALSE
    ELSE IF num + size - 1 > ASG_MAX THEN FALSE
    ELSE \A n \in DOMAIN tab :
            ~(num < tab[n].index + tab[n].size - 1 /\ num + size > tab[n].index)

check_if_asg_avail(tab, num, size) ==
    IF num < 1 \/ num > ASG_MAX THEN FALSE
    ELSE IF num + size - 1 > ASG_MAX THEN FALSE
    ELSE \A n \in DOMAIN tab :
            ~(num < tab[n].index + tab[n].size /\ num + size > tab[n].index)

RECURSIVE scan_asg(_, _, _, _)
scan_asg(tab, size, start_num, stop) ==
    IF start_num >= stop THEN None
    ELSE IF check_if_asg_avail(tab, start_num, size) THEN Some(start_num)
    ELSE scan_asg(tab, size, start_num + 1, stop)

\* The mutant scans range(1, 80): the last assignment number is never tried.
get_next_asg_num_short(tab, size) == scan_asg(tab, size, 1, ASG_MAX)

get_next_asg_num(tab, size) == scan_asg(tab, size, 1, ASG_MAX + 1)

----------------------------------------------------------------------------
(* The socket, as the handlers use it *)

NoExc == "none"

\* The environment's choice for one handler call: the socket call (counted
\* from 1 within the call) that fails first, and how a receive fails there.
\* at = 0: every socket call succeeds.
Fail(at, kind) == [at |-> at, kind |-> kind]
\* The choices for a handler with n socket calls, sends at the odd places.
Fails(n) ==
    {Fail(0, "none")}
        \cup {Fail(k, "send") : k \in {j \in 1..n : j % 2 = 1}}
        \cup {Fail(k, kind) : k \in {j \in 1..n : j % 2 = 0}, kind \in {"timeout", "error"}}

\* socket.send / sendall: raises on a socket that is not connected, or when the
\* environment says so; a packet sent is a request waiting for its response.
Send(c, usable, fail) ==
    IF c.exc # NoExc THEN c
    ELSE LET k == c.step + 1 IN
         IF ~usable \/ fail.at = k
         THEN [c EXCEPT !.step = k, !.exc = "SendError"]
         ELSE [c EXCEPT !.step = k, !.pending = @ + 1, !.sent = @ + 1,
                        !.overlap = @ \/ (c.pending > 0)]

\* socket.recv: returns one response, or raises socket.timeout (the response
\* is still to come) or another OSError.
Recv(c, fail) ==
    IF c.exc # NoExc THEN c
    ELSE LET k == c.step + 1 IN
         IF fail.at = k
         THEN [c EXCEPT !.step = k, !.recvs = @ + 1,
                        !.exc = IF fail.kind = "timeout" THEN "Timeout" ELSE "RecvError"]
         ELSE [c EXCEPT !.step = k, !.recvs = @ + 1,
                        !.pending = IF @ > 0 THEN @ - 1 ELSE 0]

----------------------------------------------------------------------------
(* SnpxClient.set_asg *)

RetNone == [kind |-> "None"]
RetBytes == [kind |-> "bytes"]
RetSlot(e) == [kind |-> "slot", index |-> e.index, size |-> e.size,
               multiply |-> e.multiply]

\* The mutant never finds the name in the table.
already_added_never(tab, var_name) == FALSE

\* self._sys_vars.get(var_name) != None
already_added(tab, var_name) == var_name \in DOMAIN tab

\* self._sys_vars[var_name] = {"size": .., "multiply": .., "index": ..}
record_entry(tab, var_name, var_type, asg_num) ==
    [n \in DOMAIN tab \cup {var_name} |->
        IF n = var_name
        THEN [size |-> var_type.size, multiply |-> var_type.multiply,
              index |-> asg_num]
        ELSE tab[n]]

\* The assignment number set_asg settles on, or the ValueError it raises.
resolve_asg(tab, var_type, asg_num) ==
    IF asg_num = None
    THEN LET picked == get_next_asg_num(tab, var_type.size) IN
         IF picked = None THEN [exc |-> "AllocError"]
         ELSE IF picked.num < 1 \/ picked.num > ASG_MAX THEN [exc |-> "RangeError"]
         ELSE [exc |-> NoExc, num |-> picked.num]
    ELSE IF ~check_if_asg_avail(tab, asg_num.num, var_type.size)
         THEN [exc |-> "AllocError"]
    ELSE IF asg_num.num < 1 \/ asg_num.num > ASG_MAX THEN [exc |-> "RangeError"]
    ELSE [exc |-> NoExc, num |-> asg_num.num]

\* The frame is sent, the entry is recorded, and then the acknowledgement is
\* received: an exception of the receive leaves the entry recorded.
set_asg(c, var_name, var_type, asg_num, fail) ==
    IF c.exc # NoExc THEN c
    ELSE IF already_added(c.sys_vars, var_name) THEN [c EXCEPT !.ret = RetNone]
    ELSE LET r == resolve_asg(c.sys_vars, var_type, asg_num) IN
         IF r.exc # NoExc THEN [c EXCEPT !.exc = r.exc]
         ELSE LET c1 == Send(c, c.sock = "open", fail)
                  c2 == IF c1.exc # NoExc THEN c1
                        ELSE [c1 EXCEPT
                                !.sys_vars = record_entry(@, var_name, var_type, r.num),
                                !.asgSent[var_name] = @ + 1]
                  c3 == Recv(c2, fail)
              IN IF c3.exc # NoExc THEN c3 ELSE [c3 EXCEPT !.ret = RetBytes]

----------------------------------------------------------------------------
(* A handler call: the client's state before it, and what it leaves *)

\* The client as a handler finds it.
Client ==
    [sock |-> sock, sys_vars |-> sys_vars, pending |-> pending, asgSent |-> asgSent,
     hs |-> hs, sig |-> sig, up |-> up,
     exc |-> NoExc, ret |-> RetNone, step |-> 0, sent |-> 0, recvs |-> 0,
     overlap |-> FALSE, rlen |-> 0]

\* The client as the handler leaves it; last is what the call did.
Leave(c, op, name) ==
    /\ sock' = c.sock
    /\ sys_vars' = c.sys_vars
    /\ pending' = c.pending
    /\ asgSent' = c.asgSent
    /\ hs' = c.hs
    /\ sig' = c.sig
    /\ up' = c.up
    /\ last' = [op |-> op, name |-> name, had |-> name \in DOMAIN sys_vars,
                exc |-> c.exc, ret |-> c.ret, sent |-> c.sent, recvs |-> c.recvs,
                overlap |-> c.overlap]
    /\ c.pending <= MaxPending
    /\ UNCHANGED <<dvars, fit, pvars>>

SetAsgIn(names, types, asg_nums, fails) ==
    \E n \in names, t \in types, a \in asg_nums, fail \in fails :
        Leave(set_asg(Client, n, t, a, fail), "set_asg", n)

SetAsg == SetAsgIn(SessionNames, SessionTypes, SessionAsgNums, Fails(2))

----------------------------------------------------------------------------
(* SnpxClient.connect, init_signals, disconnect *)

\* The mutant sends a handshake frame and does not wait for its response.
handshake_frame_norecv(c, level, fail) ==
    LET c1 == Send(c, TRUE, fail)
    IN IF c1.exc # NoExc THEN c1 ELSE [c1 EXCEPT !.hs = level]

\* One handshake frame: sent, then one receive.  level is the frame's place in
\* the handshake (1 probe, 2 protocol negotiation, 3 clear prior assignments).
handshake_frame(c, level, fail) ==
    LET c1 == Send(c, TRUE, fail)
        c2 == IF c1.exc # NoExc THEN c1 ELSE [c1 EXCEPT !.hs = level]
    IN Recv(c2, fail)

\* The mutant rebuilds the signal objects and assigns nothing.
init_signals_unassigned(c, fail) ==
    IF c.exc # NoExc THEN c ELSE [c EXCEPT !.sig = "current"]

\* The signal objects are rebuilt on the new socket, then the position
\* variable is assigned to words 1..50.
init_signals(c, fail) ==
    IF c.exc # NoExc THEN c
    ELSE set_asg([c EXCEPT !.sig = "current"], POS_NAME, POS_TYPE, Some(1), fail)

\* first_byte is the first byte of the probe's response.
connect(c, first_byte, fail) ==
    LET \* socket.socket(): a new socket replaces the old one; the signal
        \* objects, if any, keep the old one.
        c0 == [c EXCEPT !.sock = "unconnected", !.pending = 0, !.hs = 0, !.up = FALSE,
                        !.asgSent = [n \in Names |-> 0],
                        !.sig = IF @ = "none" THEN "none" ELSE "stale"]
        \* socket.connect()
        c1 == IF fail.at = 1
              THEN [c0 EXCEPT !.step = 1, !.exc = "ConnectError"]
              ELSE [c0 EXCEPT !.step = 1, !.sock = "open"]
        c2 == handshake_frame(c1, 1, fail)
        c3 == IF c2.exc = NoExc /\ first_byte # 1
              THEN [c2 EXCEPT !.exc = "InitFailed"] ELSE c2
        c4 == handshake_frame(c3, 2, fail)
        c5 == handshake_frame(c4, 3, fail)
        c6 == init_signals(c5, fail)
    IN IF c6.exc # NoExc THEN c6 ELSE [c6 EXCEPT !.ret = RetNone, !.up = TRUE]

\* socket.close(); an exception (no socket yet) is caught and printed.
disconnect(c) ==
    IF c.sock = "none" THEN c ELSE [c EXCEPT !.sock = "closed", !.up = FALSE]

\* connect is called on a client that holds no open socket: a caller that
\* connects twice without disconnecting is outside this model.
Connect ==
    /\ sock # "open"
    /\ \E first_byte \in {0, 1}, fail \in Fails(9) :
        Leave(connect(Client, first_byte, fail), "connect", "")

Disconnect ==
    Leave(disconnect(Client), "disconnect", "")

----------------------------------------------------------------------------
(* SnpxClient._recv_snpx_packet, read_sys_var, write_sys_var *)

RetValue == [kind |-> "value"]

\* The length-aware receive's payload loop: each receive yields chunk bytes (at
\* most what is still missing); a receive that yields nothing raises
\* ConnectionError.  Only the first receive of the packet takes the response
\* off the channel.  c.rlen is len(payload).
RECURSIVE recv_payload(_, _, _, _)
recv_payload(c, payload_len, chunk, fail) ==
    IF c.exc # NoExc \/ c.rlen >= payload_len THEN c
    ELSE LET k == c.step + 1
             n == IF chunk < payload_len - c.rlen THEN chunk ELSE payload_len - c.rlen
         IN IF fail.at = k
            THEN [c EXCEPT !.step = k, !.recvs = @ + 1,
                           !.exc = IF fail.kind = "timeout" THEN "Timeout"
                                   ELSE "RecvError"]
            ELSE IF n < 1
            THEN [c EXCEPT !.step = k, !.recvs = @ + 1, !.exc = "ConnectionError"]
            ELSE recv_payload([c EXCEPT !.step = k, !.recvs = @ + 1, !.rlen = @ + n],
                              payload_len, chunk, fail)

\* resp: the first receive's length (first), the payload length its bytes 46-47
\* declare (declared) and the size of the chunks that follow (chunk).  c.rlen
\* is the length of the bytes returned.
recv_snpx_packet(c, resp, fail) ==
    LET c1 == Recv(c, fail) IN
    IF c1.exc # NoExc THEN c1
    ELSE IF resp.first <= 56 THEN [c1 EXCEPT !.rlen = resp.first]
    ELSE recv_payload([c1 EXCEPT !.rlen = 0], resp.declared, resp.chunk, fail)

\* len(payload[44 : 44 + size * 2])
data_bytes_len(payload_len, size) ==
    LET end == IF 44 + size * 2 < payload_len THEN 44 + size * 2 ELSE payload_len
    IN IF end > 44 THEN end - 44 ELSE 0

\* decodes: the bytes decode (a STRING's bytes are ASCII).
read_sys_var(c, var_name, var_type, resp, decodes, fail) ==
    LET c1 == set_asg(c, var_name, var_type, None, fail) IN
    IF c1.exc # NoExc THEN c1
    ELSE IF var_name \notin DOMAIN c1.sys_vars THEN [c1 EXCEPT !.exc = "Exception"]
    ELSE LET size == c1.sys_vars[var_name].size
             c2 == Send(c1, c1.sock = "open", fail)
             c3 == recv_snpx_packet(c2, resp, fail)
             dlen == data_bytes_len(c3.rlen, size)
         IN IF c3.exc # NoExc THEN c3
            ELSE IF c3.rlen < 4 THEN [c3 EXCEPT !.exc = "ValueError"]
            ELSE IF var_type = REAL \/ var_type = INT
                 THEN IF dlen = 4 THEN [c3 EXCEPT !.ret = RetValue]
                      ELSE [c3 EXCEPT !.exc = "StructError"]
            ELSE IF var_type = STRING_TYPE
                 THEN IF decodes THEN [c3 EXCEPT !.ret = RetValue]
                      ELSE [c3 EXCEPT !.exc = "UnicodeError"]
            ELSE [c3 EXCEPT !.exc = "TypeError"]

\* The mutant looks at the descriptor before it assigns the variable.
write_sys_var_type_first(c, var_name, var_type, packs, fail) ==
    IF var_type \notin {REAL, INT, STRING_TYPE} THEN [c EXCEPT !.exc = "TypeError"]
    ELSE LET c1 == set_asg(c, var_name, var_type, None, fail)
             c2 == Send(c1, c1.sock = "open", fail)
             c3 == Recv(c2, fail)
         IN IF c3.exc # NoExc THEN c3 ELSE [c3 EXCEPT !.ret = RetNone]

\* packs: the value converts and packs (float(value), struct.pack).  A STRING's
\* 160 payload bytes are stored from command[48] on, in a list of 56 entries.
write_sys_var(c, var_name, var_type, packs, fail) ==
    LET c1 == set_asg(c, var_name, var_type, None, fail) IN
    IF c1.exc # NoExc THEN c1
    ELSE IF var_name \notin DOMAIN c1.sys_vars THEN [c1 EXCEPT !.exc = "Exception"]
    ELSE LET byte_len == var_type.size * 2
             c2 == IF var_type = REAL \/ var_type = INT
                   THEN IF packs THEN c1 ELSE [c1 EXCEPT !.exc = "StructError"]
                   ELSE IF var_type = STRING_TYPE
                   THEN IF 48 + byte_len > 56 THEN [c1 EXCEPT !.exc = "IndexError"]
                        ELSE c1
                   ELSE [c1 EXCEPT !.exc = "TypeError"]
             c3 == Send(c2, c2.sock = "open", fail)
             c4 == Recv(c3, fail)
         IN IF c4.exc # NoExc THEN c4 ELSE [c4 EXCEPT !.ret = RetNone]

Response(first, declared, chunk) ==
    [first |-> first, declared |-> declared, chunk |-> chunk]
Responses ==
    {Response(3, 0, 0), Response(56, 0, 0), Response(60, 48, 48), Response(60, 48, 0)}

ReadSysVarIn(names, types, resps, fails) ==
    \E n \in names, t \in types, resp \in resps, fail \in fails :
        \E decodes \in IF t = STRING_TYPE THEN BOOLEAN ELSE {TRUE} :
            Leave(read_sys_var(Client, n, t, resp, decodes, fail), "read_sys_var", n)

WriteSysVarIn(names, types, fails) ==
    \E n \in names, t \in types, fail \in fails :
        \E packs \in IF t \in {INT, REAL} THEN BOOLEAN ELSE {TRUE} :
            Leave(write_sys_var(Client, n, t, packs, fail), "write_sys_var", n)

ReadSysVar == ReadSysVarIn(SessionNames, SessionTypes, Responses, Fails(6))

WriteSysVar == WriteSysVarIn(SessionNames, SessionTypes, Fails(4))

----------------------------------------------------------------------------
(* The signal objects' operations, as the session sees them *)

\* The signal objects exist once init_signals has run, and hold the socket it
\* gave them.
signal_call(c, sends, fail) ==
    IF c.sig = "none" THEN [c EXCEPT !.exc = "AttributeError"]
    ELSE IF ~sends THEN c
    ELSE Recv(Send(c, c.sig = "current" /\ c.sock = "open", fail), fail)

\* DigitalSignal.read: one packet, one receive; the decoder does not raise.
digital_read(c, count, fail) ==
    LET c1 == signal_call(c, TRUE, fail) IN
    IF c1.exc # NoExc THEN c1 ELSE [c1 EXCEPT !.ret = RetValue]

\* The mutant sends a frame for an empty list as well.
digital_write_sends(c, count, fail) ==
    IF c.sig = "none" THEN [c EXCEPT !.exc = "AttributeError"]
    ELSE LET c1 == signal_call(c, TRUE, fail) IN
         IF c1.exc # NoExc THEN c1 ELSE [c1 EXCEPT !.ret = RetNone]

\* DigitalSignal.write: nothing for an empty list; a payload of more than 255
\* bytes does not fit the text-length byte, and bytearray(command) raises.
digital_write(c, count, fail) ==
    IF c.sig = "none" THEN [c EXCEPT !.exc = "AttributeError"]
    ELSE IF count = 0 THEN [c EXCEPT !.ret = RetNone]
    ELSE IF count > 48 /\ (count + 7) \div 8 > 255 THEN [c EXCEPT !.exc = "ValueError"]
    ELSE LET c1 == signal_call(c, TRUE, fail) IN
         IF c1.exc # NoExc THEN c1 ELSE [c1 EXCEPT !.ret = RetNone]

\* PositionData.read: one packet, one receive; slicing does not raise.
position_read(c, fail) ==
    LET c1 == signal_call(c, TRUE, fail) IN
    IF c1.exc # NoExc THEN c1 ELSE [c1 EXCEPT !.ret = RetValue]

DigitalRead ==
    \E count \in {1, 64}, fail \in Fails(2) :
        Leave(digital_read(Client, count, fail), "digital_read", "")

DigitalWrite ==
    \E count \in {0, 48, 49, 2041}, fail \in Fails(2) :
        Leave(digital_write(Client, count, fail), "digital_write", "")

PositionRead ==
    \E fail \in Fails(2) :
        Leave(position_read(Client, fail), "position_read", "")

----------------------------------------------------------------------------
(* The session's specification *)

EmptyTable == [n \in {} |-> None]

CodecIdle ==
    /\ dphase = "idle"
    /\ dvalue = <<>>
    /\ dframe = <<>>
    /\ dresp = <<>>
    /\ dbits = <<>>

FitIdle == fit = [phase |-> "idle", size |-> 0, result |-> None]

DecIdle == dec = [phase |-> "idle"]
VarIdle == var = [phase |-> "idle"]
RcvIdle == rcv = [phase |-> "idle"]

Init ==
    /\ sock = "none"
    /\ sys_vars = EmptyTable
    /\ pending = 0
    /\ asgSent = [n \in Names |-> 0]
    /\ hs = 0
    /\ sig = "none"
    /\ up = FALSE
    /\ last = [op |-> "init", name |-> "", had |-> FALSE, exc |-> NoExc,
               ret |-> RetNone, sent |-> 0, recvs |-> 0, overlap |-> FALSE]
    /\ CodecIdle
    /\ FitIdle
    /\ DecIdle
    /\ VarIdle
    /\ RcvIdle
    /\ joints = [phase |-> "idle"]

Next ==
    \/ Connect
    \/ Disconnect
    \/ SetAsg
    \/ ReadSysVar
    \/ WriteSysVar
    \/ DigitalRead
    \/ DigitalWrite
    \/ PositionRead

Spec == Init /\ [][Next]_vars

----------------------------------------------------------------------------
(* The allocator's specification: one connection, richer assignments *)

\* The client after connect(): either the handshake went through and
\* init_signals assigned the position variable, or the probe was refused and
\* the socket stays open with nothing assigned.
\* A call there succeeds, or its send fails, or a receive times out.
AllocFails == {Fail(0, "none"), Fail(1, "send"), Fail(2, "timeout"), Fail(4, "timeout")}

AllocInit ==
    /\ sock = "open"
    /\ pending = 0
    /\ \/ /\ sys_vars = record_entry(EmptyTable, POS_NAME, POS_TYPE, 1)
          /\ asgSent = [n \in Names |-> IF n = POS_NAME THEN 1 ELSE 0]
          /\ hs = 3
          /\ sig = "current"
          /\ up = TRUE
          /\ last = [op |-> "connect", name |-> "", had |-> FALSE, exc |-> NoExc,
                     ret |-> RetNone, sent |-> 4, recvs |-> 4, overlap |-> FALSE]
       \/ /\ sys_vars = EmptyTable
          /\ asgSent = [n \in Names |-> 0]
          /\ hs = 1
          /\ sig = "none"
          /\ up = FALSE
          /\ last = [op |-> "connect", name |-> "", had |-> FALSE, exc |-> "InitFailed",
                     ret |-> RetNone, sent |-> 1, recvs |-> 1, overlap |-> FALSE]
    /\ CodecIdle
    /\ FitIdle
    /\ DecIdle
    /\ VarIdle
    /\ RcvIdle
    /\ joints = [phase |-> "idle"]

AllocSetAsg == SetAsgIn(AllocNames, AllocTypes, AllocAsgNums, AllocFails)

AllocReadSysVar == ReadSysVarIn(AllocNames, AllocTypes, {Response(56, 0, 0)}, AllocFails)

AllocWriteSysVar == WriteSysVarIn(AllocNames, AllocTypes, AllocFails)

AllocNext ==
    \/ AllocSetAsg
    \/ AllocReadSysVar
    \/ AllocWriteSysVar

SpecAlloc == AllocInit /\ [][AllocNext]_vars

----------------------------------------------------------------------------
(* Filling the window: a caller that connects and, once connect has      *)
(* returned, asks for variable after variable                              *)

\* The caller's own entries, and the name it asks for next.
OwnNames == DOMAIN sys_vars \ {POS_NAME}
NextName == FillName(Cardinality(OwnNames) + 1)

\* connect(): the probe is accepted or refused; the receive after the SETASG
\* of the position variable may time out.
FillConnect ==
    /\ sock # "open"
    /\ \E first_byte \in {0, 1}, fail \in {Fail(0, "none"), Fail(9, "timeout")} :
        Leave(connect(Client, first_byte, fail), "connect", "")

\* A call of the caller goes through, or its first receive times out.
FillSetAsg ==
    /\ up
    /\ Cardinality(OwnNames) < MaxVars
    /\ SetAsgIn({NextName}, SessionTypes, SessionAsgNums,
                {Fail(0, "none"), Fail(2, "timeout")})

FillReadSysVar ==
    /\ up
    /\ Cardinality(OwnNames) < MaxVars
    /\ ReadSysVarIn({NextName}, SessionTypes, {Response(56, 0, 0)},
                    {Fail(0, "none"), Fail(2, "timeout")})

FillWriteSysVar ==
    /\ up
    /\ Cardinality(OwnNames) < MaxVars
    /\ WriteSysVarIn({NextName}, SessionTypes, {Fail(0, "none"), Fail(2, "timeout")})

FillNext ==
    \/ FillConnect
    \/ FillSetAsg
    \/ FillReadSysVar
    \/ FillWriteSysVar

SpecFill == Init /\ [][FillNext]_vars

----------------------------------------------------------------------------
(* The allocator's scan as a function of the table and the size *)

\* Tables the client can hold: the position variable assigned by init_signals
\* or not, and up to two more entries of 1, 2, 29 or 80 words at the starts
\* below, inside the window and sharing no word.
FitStarts == {1, 2, 3, 30, 50, 51, 52, 53, 54, 78, 79, 80}
FitSizes == {1, 2, 29, 80}
FitEntries ==
    {[size |-> z, multiply |-> 0, index |-> i] : z \in FitSizes, i \in FitStarts}
FitValid(tab) ==
    /\ \A n \in DOMAIN tab : tab[n].index + tab[n].size - 1 <= ASG_MAX
    /\ \A n, m \in DOMAIN tab :
        n # m => (tab[n].index .. (tab[n].index + tab[n].size - 1))
                    \cap (tab[m].index .. (tab[m].index + tab[m].size - 1)) = {}
FitTables ==
    LET pos == {EmptyTable, record_entry(EmptyTable, POS_NAME, POS_TYPE, 1)}
        one == pos \cup {[n \in DOMAIN t \cup {"$ANGTOL[1]"} |->
                            IF n = "$ANGTOL[1]" THEN e ELSE t[n]] :
                         t \in pos, e \in FitEntries}
        two == one \cup {[n \in DOMAIN t \cup {"$AC_CRC_ACCO[1]"} |->
                            IF n = "$AC_CRC_ACCO[1]" THEN e ELSE t[n]] :
                         t \in one, e \in FitEntries}
    IN {t \in two : FitValid(t)}

FitInit ==
    /\ sock = "open"
    /\ sys_vars \in FitTables
    /\ pending = 0
    /\ asgSent = [n \in Names |-> IF n \in DOMAIN sys_vars THEN 1 ELSE 0]
    /\ hs = IF POS_NAME \in DOMAIN sys_vars THEN 3 ELSE 1
    /\ sig = IF POS_NAME \in DOMAIN sys_vars THEN "current" ELSE "none"
    /\ up = (POS_NAME \in DOMAIN sys_vars)
    /\ last = [op |-> "init", name |-> "", had |-> FALSE, exc |-> NoExc,
               ret |-> RetNone, sent |-> 0, recvs |-> 0, overlap |-> FALSE]
    /\ CodecIdle
    /\ DecIdle
    /\ VarIdle
    /\ RcvIdle
    /\ joints = [phase |-> "idle"]
    /\ \E size \in 1..ASG_MAX : fit = [phase |-> "input", size |-> size, result |-> None]

FitScan ==
    /\ fit.phase = "input"
    /\ fit' = [fit EXCEPT !.phase = "done",
                          !.result = get_next_asg_num(sys_vars, fit.size)]
    /\ UNCHANGED <<svars, dvars, pvars>>

FitNext == FitScan

SpecFit == FitInit /\ [][FitNext]_vars

----------------------------------------------------------------------------
(* The digital signal codec: DigitalSignal.write's frame *)

\* The request template, bytes 0..55.
BASE_MSG ==
    <<2, 0, 0, 0, 0, 0, 0, 0,   0, 1, 0, 0, 0, 0, 0, 0,
      0, 1, 0, 0, 0, 0, 0, 0,   0, 0, 0, 0, 0, 0, 0, 192,
      0, 0, 0, 0, 16, 14, 0, 0, 1, 1, 4, 70, 0, 0, 0, 0,
      0, 0, 0, 0, 0, 0, 0, 0>>

\* Python's list operations, on 0-based positions.
\* command[i] = v
PySet(command, i, v) == [command EXCEPT ![i + 1] = v]
\* command[i:i] = ins
PyInsert(command, i, ins) ==
    SubSeq(command, 1, i) \o ins \o SubSeq(command, i + 1, Len(command))
\* The mutant drops nothing.
PyDropLast_none(command, n) == command

\* command[:-n], n >= 1
PyDropLast(command, n) == SubSeq(command, 1, Len(command) - n)

\* x & 0xFF and (x >> 8) & 0xFF, x >= 0
LowByte(x) == x % 256
HighByte(x) == (x \div 256) % 256

Pow2(j) == CASE j = 0 -> 1 [] j = 1 -> 2 [] j = 2 -> 4 [] j = 3 -> 8
             [] j = 4 -> 16 [] j = 5 -> 32 [] j = 6 -> 64 [] j = 7 -> 128

\* The mutant sets the bits of the last byte that lie past the values.
pack_byte_ones(value, first) ==
    LET weight(j) == IF first + j >= Len(value) \/ value[first + j + 1]
                     THEN Pow2(j) ELSE 0
    IN weight(0) + weight(1) + weight(2) + weight(3)
        + weight(4) + weight(5) + weight(6) + weight(7)

\* One byte of the payload: value[first + j] sets bit j (byte |= 1 << j), for
\* the positions first + j below Len(value); first is 0-based.
pack_byte(value, first) ==
    LET weight(j) == IF first + j < Len(value) /\ value[first + j + 1]
                     THEN Pow2(j) ELSE 0
    IN weight(0) + weight(1) + weight(2) + weight(3)
        + weight(4) + weight(5) + weight(6) + weight(7)

\* The mutant packs the first value of each byte into its highest bit.
pack_bits_msb(value) ==
    LET count == Len(value)
        byte_count == (count + 7) \div 8
    IN [i \in 1..byte_count |->
          LET weight(j) == IF (i - 1) * 8 + j < count /\ value[(i - 1) * 8 + j + 1]
                           THEN Pow2(7 - j) ELSE 0
          IN weight(0) + weight(1) + weight(2) + weight(3)
              + weight(4) + weight(5) + weight(6) + weight(7)]

\* byte_count = math.ceil(count / 8); bit j of byte i is value[i * 8 + j].
pack_bits(value) ==
    LET count == Len(value)
        byte_count == (count + 7) \div 8
    IN [i \in 1..byte_count |-> pack_byte(value, (i - 1) * 8)]

\* The mutant takes 48 values for a large write already.
is_large_write_from48(count) == count >= 48

\* The frame shape: count <= 48 is the small write, count > 48 the large one.
is_large_write(count) == count > 48

\* The command list DigitalSignal.write builds for a non-empty value.
write_command(code, address, value, start_index_arg) ==
    LET start_index == address + start_index_arg - 1
        count == Len(value)
        large == is_large_write(count)
        c1 == IF ~large THEN PySet(PySet(BASE_MSG, 9, 1), 17, 1)
              ELSE PySet(PySet(PySet(BASE_MSG, 9, 2), 17, 2), 31, 128)
        byte_allocation == ((count + 7) \div 8) * 8
        c2 == [c1 EXCEPT ![2 + 1] = LowByte(count),
                         ![3 + 1] = HighByte(count),
                         ![30 + 1] = LowByte(count),
                         ![42 + 1] = 7,
                         ![43 + 1] = code,
                         ![44 + 1] = LowByte(start_index),
                         ![45 + 1] = HighByte(start_index),
                         ![46 + 1] = LowByte(byte_allocation),
                         ![47 + 1] = HighByte(byte_allocation)]
        c3 == IF large
              THEN PyDropLast(PyInsert(PyInsert(c2, 42, <<0, 0, 0, 0, 0, 0>>),
                                       48, <<1, 1>>), 8)
              ELSE c2
        payload == pack_bits(value)
    IN IF large THEN PySet(c3 \o payload, 4, Len(payload))
       ELSE PyDropLast(PyInsert(c3, 48, payload), Len(payload))

\* bytearray(command) raises unless every entry is in range(256).
IsByteList(command) == \A i \in 1..Len(command) : command[i] \in 0..255

----------------------------------------------------------------------------
(* The digital signal codec: _decode_digital_outputs *)

HexChars ==
    <<"0", "1", "2", "3", "4", "5", "6", "7", "8", "9", "a", "b", "c", "d", "e", "f">>

\* bytes.hex(): two characters per byte.
Hex(bytes) ==
    [k \in 1..(2 * Len(bytes)) |->
        IF k % 2 = 1 THEN HexChars[(bytes[(k + 1) \div 2] \div 16) + 1]
        ELSE HexChars[(bytes[k \div 2] % 16) + 1]]

\* The value of a hexadecimal digit, -1 for any other character.
HexVal(ch) ==
    IF \E d \in 1..16 : HexChars[d] = ch
    THEN (CHOOSE d \in 1..16 : HexChars[d] = ch) - 1
    ELSE -1

\* int(text, 16) for the one or two characters of a chunk; -1: ValueError.
ParseHexByte(text) ==
    IF Len(text) = 0 \/ \E k \in 1..Len(text) : HexVal(text[k]) < 0 THEN -1
    ELSE IF Len(text) = 1 THEN HexVal(text[1])
    ELSE HexVal(text[1]) * 16 + HexVal(text[2])

\* s[a:], s[a:-b] for a string s
PyFrom(str, a) == SubSeq(str, a + 1, Len(str))
PyFromTo(str, a, b) == SubSeq(str, a + 1, Len(str) - b)

\* The mutant gives all 8 bits of a byte, whatever is still asked for.
byte_bits_all(byte_val, n) == [b \in 1..8 |-> (byte_val \div Pow2(b - 1)) % 2 = 1]

\* The first n bits of a byte, lowest first: bool((byte_val >> bit) & 1).
byte_bits(byte_val, n) == [b \in 1..n |-> (byte_val \div Pow2(b - 1)) % 2 = 1]

\* The loop over data_hex, two characters at a time, from position i (0-based)
\* with bool_list so far.
RECURSIVE decode_loop(_, _, _, _)
decode_loop(data_hex, i, requested_bits, bool_list) ==
    IF i >= Len(data_hex) \/ Len(bool_list) >= requested_bits THEN bool_list
    ELSE LET left == requested_bits - Len(bool_list)
             n == IF left < 8 THEN left ELSE 8
             chunk == SubSeq(data_hex, i + 1,
                             IF i + 2 < Len(data_hex) THEN i + 2 ELSE Len(data_hex))
             byte_val == ParseHexByte(chunk)
             bits == IF byte_val < 0 THEN [b \in 1..n |-> FALSE]
                     ELSE byte_bits(byte_val, n)
         IN decode_loop(data_hex, i + 2, requested_bits, bool_list \o bits)

\* response is the hexadecimal text (DigitalSignal.read passes resp.hex()).
decode_digital_outputs(response, requested_bits) ==
    IF Len(response) = 0 THEN <<>>
    ELSE LET clean_hex == SelectSeq(response, LAMBDA ch : ch \notin {" ", ":"})
             data_hex == IF Len(clean_hex) > 112 THEN PyFrom(clean_hex, 112)
                         ELSE PyFromTo(clean_hex, 88, 4)
         IN IF Len(data_hex) < 2 THEN <<>>
            ELSE decode_loop(data_hex, 0, requested_bits, <<>>)

----------------------------------------------------------------------------
(* The codec's specification *)

\* The lengths the codec is exercised at, and the longest value whose payload
\* length fits the text-length byte, with its successor.
CodecLengths == {0, 1, 8, 47, 48, 49, 64, 128}
LongLengths == {2040, 2041}
\* More lengths on both sides of a byte's end, for the frames.
FrameLengths == {2, 7, 9, 15, 16, 17, 24, 33, 40, 50, 56, 57}

Constant(n, b) == [k \in 1..n |-> b]
Alternating(n, first) == [k \in 1..n |-> IF k % 2 = 1 THEN first ELSE ~first]
OneBit(n, at, b) == [k \in 1..n |-> IF k = at THEN b ELSE ~b]

\* Every sequence of at most 8 values; at the longer lengths the constant and
\* the alternating sequences and those that differ from a constant at one place.
DigitalInputs ==
    UNION {[1..n -> BOOLEAN] : n \in {0, 1, 8}}
        \cup {Constant(n, b) : n \in CodecLengths \cup LongLengths, b \in BOOLEAN}
        \cup {Alternating(n, b) : n \in CodecLengths \cup LongLengths, b \in BOOLEAN}
        \cup UNION {{OneBit(n, at, b) : at \in 1..n, b \in BOOLEAN} : n \in CodecLengths}
        \cup {Constant(n, b) : n \in FrameLengths, b \in BOOLEAN}
        \cup {Alternating(n, b) : n \in FrameLengths, b \in BOOLEAN}
        \cup {OneBit(n, n, b) : n \in FrameLengths, b \in BOOLEAN}

\* The signal objects of init_signals that the codec is exercised with:
\* self.di and self.uo.
Signals == {[code |-> 72, address |-> 0], [code |-> 70, address |-> 6000]}
StartIndexes == {1, 300}

SessionIdle ==
    /\ sock = "open"
    /\ sys_vars = record_entry(EmptyTable, POS_NAME, POS_TYPE, 1)
    /\ pending = 0
    /\ asgSent = [n \in Names |-> IF n = POS_NAME THEN 1 ELSE 0]
    /\ hs = 3
    /\ sig = "current"
    /\ up = TRUE
    /\ last = [op |-> "connect", name |-> "", had |-> FALSE, exc |-> NoExc,
               ret |-> RetNone, sent |-> 4, recvs |-> 4, overlap |-> FALSE]

CodecInit ==
    /\ SessionIdle
    /\ FitIdle
    /\ DecIdle
    /\ VarIdle
    /\ RcvIdle
    /\ joints = [phase |-> "idle"]
    /\ dphase = "input"
    /\ dvalue \in DigitalInputs
    /\ dframe = <<>>
    /\ dresp = <<>>
    /\ dbits = <<>>

\* DigitalSignal.write(dvalue, start_index) on a signal object: nothing for an
\* empty list, else the frame is built and sent (and the answer received and
\* dropped).
CodecWrite ==
    /\ dphase = "input"
    /\ \E s \in Signals, start_index \in StartIndexes :
        IF Len(dvalue) = 0
        THEN dphase' = "noop" /\ dframe' = <<>>
        ELSE LET command == write_command(s.code, s.address, dvalue, start_index)
             IN IF IsByteList(command)
                THEN dphase' = "sent" /\ dframe' = command
                ELSE dphase' = "raised" /\ dframe' = <<>>
    /\ UNCHANGED <<svars, fit, pvars, dvalue, dresp, dbits>>

\* A response whose payload region holds payload: after a 56-byte header, or,
\* for a response of at most 56 bytes, from byte 44 up to its last two bytes.
LongResponse(header, payload) == header \o payload
ShortResponse(payload) == SubSeq(BASE_MSG, 1, 44) \o payload \o <<0, 0>>
ResponseHeaders == {[k \in 1..56 |-> 0], PySet(BASE_MSG, 0, 3)}
ResponsesFor(payload) ==
    {LongResponse(h, payload) : h \in ResponseHeaders}
        \cup (IF Len(payload) \in 1..10 THEN {ShortResponse(payload)} ELSE {})

\* DigitalSignal.read's decoding of a response that carries the bytes the
\* write packed, asked for as many bits as were written.
CodecDecode ==
    /\ dphase \in {"sent", "noop"}
    /\ \E response \in ResponsesFor(pack_bits(dvalue)) :
        /\ dresp' = response
        /\ dbits' = decode_digital_outputs(Hex(response), Len(dvalue))
    /\ dphase' = "decoded"
    /\ UNCHANGED <<svars, fit, pvars, dvalue, dframe>>

CodecNext ==
    \/ CodecWrite
    \/ CodecDecode

SpecCodec == CodecInit /\ [][CodecNext]_vars

----------------------------------------------------------------------------
(* The decoder's specification *)

\* Responses as bytes: n bytes, zero up to offset 44 and b from there on.
FilledResponse(n, b) == [k \in 1..n |-> IF k > 44 THEN b ELSE 0]
DecodeLengths == {0, 1, 44, 46, 47, 48, 55, 56, 57, 58, 60}
DecodeFill == {0, 1, 165, 255}
DecodeBytes == {FilledResponse(n, b) : n \in DecodeLengths, b \in DecodeFill}

\* Responses as text, the way a caller may hand them to the decoder: the
\* hexadecimal text of a 56-byte header, then text that is not hexadecimal, in
\* part or in whole, or has an odd length, or ":" between the bytes.
DecodeTexts ==
    {Hex(FilledResponse(56, 0)) \o t :
        t \in {<<"z", "z">>, <<"1", "z">>, <<"f", "f", "z", "z">>,
               <<"z", "z", "f", "f">>, <<"f", "f", "1">>, <<"0", "5", ":", "f", "f">>}}

DecodeCounts == {0, 1, 7, 8, 9, 16, 17}

DecodeInit ==
    /\ SessionIdle
    /\ CodecIdle
    /\ FitIdle
    /\ VarIdle
    /\ RcvIdle
    /\ joints = [phase |-> "idle"]
    /\ \E requested_bits \in DecodeCounts :
        \/ \E bytes \in DecodeBytes :
            dec = [phase |-> "input", kind |-> "bytes", nbytes |-> Len(bytes),
                   response |-> Hex(bytes), requested_bits |-> requested_bits,
                   exc |-> NoExc, out |-> <<>>]
        \/ \E text \in DecodeTexts :
            dec = [phase |-> "input", kind |-> "text", nbytes |-> 0,
                   response |-> text, requested_bits |-> requested_bits,
                   exc |-> NoExc, out |-> <<>>]

\* _decode_digital_outputs(response, requested_bits); a bytes response is
\* turned into its hexadecimal text first.  int() is the only call in it that
\* raises on these arguments, and its ValueError is caught.
DecodeCall ==
    /\ dec.phase = "input"
    /\ dec' = [dec EXCEPT !.phase = "done",
                          !.out = decode_digital_outputs(dec.response, dec.requested_bits)]
    /\ UNCHANGED <<svars, dvars, fit, var, rcv, joints>>

DecodeNext == DecodeCall

SpecDecode == DecodeInit /\ [][DecodeNext]_vars

----------------------------------------------------------------------------
(* The value encoding of write_sys_var and the decoding of read_sys_var *)

\* A number given or returned as a value: num / den, a Python int for den = 1,
\* else a float with an exact binary fraction.  The arithmetic below is over
\* integers of 32 bits, so the numbers stay within -2^31 .. 2^31 - 1.
Number(num, den) == [num |-> num, den |-> den]

\* int(x) for x = a / d, d > 0: truncation toward zero.
py_int(a, d) == IF a >= 0 THEN a \div d ELSE (a + d - 1) \div d

\* s[a:b] for 0 <= a <= b
PySlice(str, a, b) == SubSeq(str, a + 1, IF b < Len(str) THEN b ELSE Len(str))

\* struct.pack('<i', raw): little-endian two's complement.
pack_i32(raw) ==
    <<raw % 256, (raw \div 256) % 256, (raw \div 65536) % 256,
      (raw \div 16777216) % 256>>

\* struct.unpack('<i', b)[0]
unpack_i32(b) ==
    b[1] + 256 * b[2] + 65536 * b[3]
        + 16777216 * (IF b[4] < 128 THEN b[4] ELSE b[4] - 256)

\* The binary exponent of a / d, a > 0: the e with 2^e <= a / d < 2^(e + 1),
\* searched from e downward.
RECURSIVE f32_exponent(_, _, _)
f32_exponent(a, d, e) ==
    IF e >= 0
    THEN IF a \div d >= 2^e THEN e ELSE f32_exponent(a, d, e - 1)
    ELSE IF a * 2^(-e) >= d THEN e ELSE f32_exponent(a, d, e - 1)

\* n / dv rounded to the nearest integer, ties to the even one.
round_half_even(n, dv) ==
    LET q == n \div dv
        r == n % dv
    IN IF 2 * r > dv \/ (2 * r = dv /\ q % 2 = 1) THEN q + 1 ELSE q

\* struct.pack('<f', float(num / den)): IEEE 754 binary32, little-endian; the
\* value is rounded to 24 significant bits.
pack_f32(num, den) ==
    IF num = 0 THEN <<0, 0, 0, 0>>
    ELSE LET sign == IF num < 0 THEN 1 ELSE 0
             a == IF num < 0 THEN -num ELSE num
             e0 == f32_exponent(a, den, 30)
             m0 == IF e0 <= 23 THEN round_half_even(a * 2^(23 - e0), den)
                   ELSE round_half_even(a, den * 2^(e0 - 23))
             e == IF m0 = 16777216 THEN e0 + 1 ELSE e0
             m == IF m0 = 16777216 THEN 8388608 ELSE m0
             biased == e + 127
             frac == m - 8388608
         IN <<frac % 256, (frac \div 256) % 256,
              (frac \div 65536) + (biased % 2) * 128,
              sign * 128 + biased \div 2>>

\* m / 2^k in lowest terms.
RECURSIVE reduce_pow2(_, _)
reduce_pow2(m, k) ==
    IF k > 0 /\ m % 2 = 0 THEN reduce_pow2(m \div 2, k - 1) ELSE Number(m, 2^k)

\* struct.unpack('<f', b)[0] for zero and the normal numbers; den = 0 stands
\* for the others (subnormal, infinite, NaN).
unpack_f32(b) ==
    LET sign == b[4] \div 128
        biased == (b[4] % 128) * 2 + b[3] \div 128
        frac == (b[3] % 128) * 65536 + b[2] * 256 + b[1]
        m == 8388608 + frac
        mag == IF biased >= 150 THEN Number(m * 2^(biased - 150), 1)
               ELSE reduce_pow2(m, 150 - biased)
    IN IF biased = 0 /\ frac = 0 THEN Number(0, 1)
       ELSE IF biased = 0 \/ biased = 255 THEN Number(0, 0)
       ELSE Number(IF sign = 1 THEN -mag.num ELSE mag.num, mag.den)

\* str.encode('ascii', errors='replace') of a text given by its code points:
\* a character outside ASCII becomes "?".
encode_ascii(text) == [k \in 1..Len(text) |-> IF text[k] < 128 THEN text[k] ELSE 63]

\* payload + b'\x00' * (byte_len - len(payload)), or payload[:byte_len]
fit_to(payload, byte_len) ==
    IF Len(payload) < byte_len
    THEN payload \o [k \in 1..(byte_len - Len(payload)) |-> 0]
    ELSE SubSeq(payload, 1, byte_len)

\* str.strip('\x00'): the NUL characters at both ends go.
strip_nul(text) ==
    LET kept == {k \in 1..Len(text) : text[k] # 0}
    IN IF kept = {} THEN <<>>
       ELSE SubSeq(text, CHOOSE k \in kept : \A j \in kept : k <= j,
                         CHOOSE k \in kept : \A j \in kept : k >= j)


\* What a conversion gives: the exception it raised, or its bytes.
Raised(exc) == [exc |-> exc, bytes |-> <<>>]
Bytes(bytes) == [exc |-> NoExc, bytes |-> bytes]

\* The payload write_sys_var builds for value: num / den for the numeric
\* descriptors, text for a STRING; then cut or padded to byte_len.
write_payload(var_type, num, den, text) ==
    LET byte_len == var_type.size * 2 IN
    IF var_type = REAL THEN Bytes(fit_to(pack_f32(num, den), byte_len))
    ELSE IF var_type = INT
    THEN LET raw == IF var_type.multiply # 0 THEN py_int(num * var_type.multiply, den)
                    ELSE py_int(num, den)
         IN Bytes(fit_to(pack_i32(raw), byte_len))
    ELSE IF var_type = STRING_TYPE
    THEN Bytes(fit_to(fit_to(encode_ascii(text), byte_len), byte_len))
    ELSE Raised("ValueError")

\* The request header write_sys_var fills in for the entry at asg_num.
write_var_header(asg_num, size) ==
    LET start_word_address == asg_num - 1
        count == size * 2
    IN [BASE_MSG EXCEPT ![2 + 1] = LowByte(count),
                        ![3 + 1] = HighByte(count),
                        ![30 + 1] = LowByte(count),
                        ![42 + 1] = 7,
                        ![43 + 1] = 8,
                        ![44 + 1] = LowByte(start_word_address),
                        ![45 + 1] = HighByte(start_word_address),
                        ![46 + 1] = LowByte(size),
                        ![47 + 1] = HighByte(size)]

\* for i, b in enumerate(payload): command[48 + i] = b, on a list: an index
\* past the list's end raises IndexError.
place_payload(command, payload) ==
    IF 48 + Len(payload) > Len(command) THEN Raised("IndexError")
    ELSE Bytes([k \in 1..Len(command) |->
                  IF k > 48 /\ k <= 48 + Len(payload) THEN payload[k - 48]
                  ELSE command[k]])

\* The decoding of read_sys_var: what it raised, or the value it returned.
Decoded(num, den, text) == [exc |-> NoExc, num |-> num, den |-> den, text |-> text]
DecodeRaised(exc) == [exc |-> exc, num |-> 0, den |-> 1, text |-> <<>>]

\* read_sys_var from the bytes _recv_snpx_packet returned, for the table entry
\* var_info and the descriptor var_type.
read_value(var_info, var_type, payload) ==
    LET data_bytes == PySlice(payload, 44, 44 + var_info.size * 2) IN
    IF Len(payload) < 4 THEN DecodeRaised("ValueError")
    ELSE IF var_type = REAL
    THEN IF Len(data_bytes) # 4 THEN DecodeRaised("StructError")
         ELSE LET value == unpack_f32(data_bytes)
              IN Decoded(value.num, value.den, <<>>)
    ELSE IF var_type = INT
    THEN IF Len(data_bytes) # 4 THEN DecodeRaised("StructError")
         ELSE LET raw_value == unpack_i32(data_bytes)
              IN IF var_info.multiply # 0 THEN Decoded(raw_value, var_info.multiply, <<>>)
                 ELSE Decoded(raw_value, 1, <<>>)
    ELSE IF var_type = STRING_TYPE
    THEN IF \E k \in 1..Len(data_bytes) : data_bytes[k] >= 128
         THEN DecodeRaised("UnicodeError")
         ELSE Decoded(0, 1, strip_nul(data_bytes))
    ELSE DecodeRaised("ValueError")

----------------------------------------------------------------------------
(* The value codec's specification *)

\* The descriptors: the three of VariableTypes, and an INT with scale 100.
VarTypes == {INT, REAL, STRING_TYPE, FanucVariable(2, 100)}

\* Integers up to the ends of the 32-bit range; the float32 arithmetic of
\* unpack_f32 needs results below 2^31, so REAL takes those up to 2^30.
VarInts ==
    {0, 1, -1, 2, 3, -3, 127, 128, 255, 256, -256, 65535, 65536, 16777215,
     16777216, 16777217, 16777219, -16777217, 1073741824, 2147483647,
     -2147483647 - 1}
\* Floats with an exact binary fraction, in quarters.
VarQuarters == {1, 2, 3, 5, 6, 7, 9, 10, 11, -1, -6, -11, 401}
VarNumbers(var_type) ==
    {Number(v, 1) : v \in IF var_type = REAL
                          THEN {w \in VarInts : w >= -1073741824 /\ w <= 1073741824}
                          ELSE VarInts}
        \cup {Number(q, 4) : q \in VarQuarters}

\* Texts by their code points: "ABC", runs of "A" around the 160-byte width,
\* a text with NUL at its ends, and one with a character outside ASCII.
VarTexts ==
    {<<>>, <<65, 66, 67>>, <<65, 0, 66>>, <<0, 65>>, <<65, 0>>, <<65, 233, 66>>}
        \cup {[k \in 1..n |-> 65] : n \in {1, 8, 9, 159, 160, 161, 200}}

VarInputs ==
    {[vtype |-> t, num |-> x.num, den |-> x.den, text |-> <<>>] :
        t \in VarTypes \ {REAL, STRING_TYPE}, x \in VarNumbers(INT)}
        \cup {[vtype |-> REAL, num |-> x.num, den |-> x.den, text |-> <<>>] :
                x \in VarNumbers(REAL)}
        \cup {[vtype |-> STRING_TYPE, num |-> 0, den |-> 1, text |-> t] : t \in VarTexts}

VarInit ==
    /\ SessionIdle
    /\ CodecIdle
    /\ FitIdle
    /\ DecIdle
    /\ RcvIdle
    /\ joints = [phase |-> "idle"]
    /\ \E in \in VarInputs :
        var = [phase |-> "input", vtype |-> in.vtype, num |-> in.num,
              den |-> in.den, text |-> in.text, exc |-> NoExc,
              payload |-> <<>>, frame |-> <<>>, out |-> DecodeRaised(NoExc)]

\* write_sys_var from the payload on, for an entry of the descriptor at the
\* first free assignment number: the payload is built and stored into the
\* command, and the command is sent.
VarWrite ==
    /\ var.phase = "input"
    /\ LET size == var.vtype.size
           asg_num == IF size = 80 THEN 1 ELSE 51
           built == write_payload(var.vtype, var.num, var.den, var.text)
           placed == IF built.exc # NoExc THEN built
                     ELSE place_payload(write_var_header(asg_num, size), built.bytes)
       IN var' = [var EXCEPT !.phase = IF placed.exc = NoExc THEN "written" ELSE "raised",
                             !.exc = placed.exc,
                             !.payload = built.bytes,
                             !.frame = placed.bytes]
    /\ UNCHANGED <<svars, dvars, fit, dec, rcv, joints>>

\* read_sys_var's decoding, for the same descriptor, of a packet that carries
\* the bytes the write built from offset 44 on.
VarDecode ==
    /\ var.phase \in {"written", "raised"}
    /\ Len(var.payload) > 0
    /\ \E tail \in {<<>>, <<0, 0>>} :
        LET var_info == [size |-> var.vtype.size, multiply |-> var.vtype.multiply,
                         index |-> IF var.vtype.size = 80 THEN 1 ELSE 51]
            response == SubSeq(BASE_MSG, 1, 44) \o var.payload \o tail
        IN var' = [var EXCEPT !.phase = "decoded",
                              !.out = read_value(var_info, var.vtype, response)]
    /\ UNCHANGED <<svars, dvars, fit, dec, rcv, joints>>

VarNext ==
    \/ VarWrite
    \/ VarDecode

SpecVar == VarInit /\ [][VarNext]_vars

----------------------------------------------------------------------------
(* _recv_snpx_packet, receive by receive *)

\* The first packet the socket delivers: first bytes, with a 7 at offset 44
\* and the count field at offsets 46-47.
FirstPacket(first, count_field) ==
    [k \in 1..first |->
        IF k = 44 + 1 THEN 7
        ELSE IF k = 46 + 1 THEN LowByte(count_field)
        ELSE IF k = 47 + 1 THEN HighByte(count_field)
        ELSE 0]

\* The bytes the socket delivers after the first packet, from position a + 1
\* to position b of that stream.
StreamBytes(a, b) == [k \in 1..(b - a) |-> ((a + k) % 251) + 1]

\* int.from_bytes(packet[46:48], "little")
count_field_of(packet) == packet[46 + 1] + 256 * packet[47 + 1]

\* The mutant's loop test: the payload is never short.
payload_short_never(payload, payload_len) == FALSE

\* while len(payload) < payload_len
payload_short(payload, payload_len) == Len(payload) < payload_len

RecvFirsts == {3, 47, 48, 55, 56, 57, 60, 64}
RecvCounts == {0, 1, 4, 48, 260}
\* The sizes a receive of the payload loop may come back with; 0: the peer
\* closed the connection.
RecvChunks == {0, 1, 16, 48, 260}

RecvInit ==
    /\ SessionIdle
    /\ CodecIdle
    /\ FitIdle
    /\ DecIdle
    /\ VarIdle
    /\ joints = [phase |-> "idle"]
    /\ \E first \in RecvFirsts, count_field \in RecvCounts :
        rcv = [phase |-> "call", packet |-> FirstPacket(first, count_field),
               payload_len |-> 0, payload |-> <<>>, recvs |-> 0, empty |-> FALSE,
               exc |-> NoExc, ret |-> <<>>, out |-> DecodeRaised(NoExc)]

\* packet = sock.recv(1024): the packet comes, or the receive raises.  A packet
\* of at most 56 bytes is returned as it is; for a longer one the payload loop
\* starts, and ends at once when the count field is 0.
RecvFirst ==
    /\ rcv.phase = "call"
    /\ \/ rcv' = [rcv EXCEPT !.phase = "raised", !.exc = "Timeout", !.recvs = @ + 1]
       \/ IF Len(rcv.packet) <= 56
          THEN rcv' = [rcv EXCEPT !.phase = "returned", !.recvs = @ + 1,
                                  !.ret = rcv.packet]
          ELSE LET payload_len == count_field_of(rcv.packet)
               IN rcv' = [rcv EXCEPT !.phase = IF payload_short(<<>>, payload_len)
                                               THEN "loop" ELSE "returned",
                                     !.recvs = @ + 1,
                                     !.payload_len = payload_len]
    /\ UNCHANGED <<svars, dvars, fit, dec, var, joints>>

\* chunk = sock.recv(payload_len - len(payload)): at most that many bytes come,
\* or none (ConnectionError), or the receive raises.
RecvChunk ==
    /\ rcv.phase = "loop"
    /\ \/ rcv' = [rcv EXCEPT !.phase = "raised", !.exc = "Timeout", !.recvs = @ + 1]
       \/ \E n \in RecvChunks :
            /\ n <= rcv.payload_len - Len(rcv.payload)
            /\ IF n < 1
               THEN rcv' = [rcv EXCEPT !.phase = "raised", !.exc = "ConnectionError",
                                       !.recvs = @ + 1, !.empty = TRUE]
               ELSE LET payload == rcv.payload
                                     \o StreamBytes(Len(rcv.payload), Len(rcv.payload) + n)
                    IN rcv' = [rcv EXCEPT !.phase = IF payload_short(payload, rcv.payload_len)
                                                    THEN "loop" ELSE "returned",
                                          !.recvs = @ + 1,
                                          !.payload = payload,
                                          !.ret = IF payload_short(payload, rcv.payload_len)
                                                  THEN <<>> ELSE payload]
    /\ UNCHANGED <<svars, dvars, fit, dec, var, joints>>

\* read_sys_var's decoding of what _recv_snpx_packet returned, for an INT or a
\* STRING variable.
RecvDecode ==
    /\ rcv.phase = "returned"
    /\ \E var_type \in {INT, STRING_TYPE} :
        LET var_info == [size |-> var_type.size, multiply |-> var_type.multiply,
                         index |-> IF var_type.size = 80 THEN 1 ELSE 51]
        IN rcv' = [rcv EXCEPT !.phase = "decoded",
                              !.out = read_value(var_info, var_type, rcv.ret)]
    /\ UNCHANGED <<svars, dvars, fit, dec, var, joints>>

RecvNext ==
    \/ RecvFirst
    \/ RecvChunk
    \/ RecvDecode

SpecRecv == RecvInit /\ [][RecvNext]_vars

\* The socket has a timeout (connect sets 5.0 s), so a receive that was called
\* comes back, with bytes or with an exception, and the caller goes on.
SpecRecvFair == SpecRecv /\ WF_vars(RecvNext)

----------------------------------------------------------------------------
(* PositionData.read: the joint values made of the response *)

\* The mutant never sees a short chunk.
chunk_short_never(chunk) == FALSE

\* if len(chunk) < 4: break
chunk_short(chunk) == Len(chunk) < 4

\* for i in range(0, len(float_data), 4): one chunk, one value.  struct.unpack
\* raises struct.error for a buffer that is not of 4 bytes.  The result is the
\* exception raised, or the list returned.
RECURSIVE read_joints(_, _, _)
read_joints(float_data, i, joint_values) ==
    IF i >= Len(float_data) THEN [exc |-> NoExc, values |-> joint_values]
    ELSE LET chunk == PySlice(float_data, i, i + 4) IN
         IF chunk_short(chunk) THEN [exc |-> NoExc, values |-> joint_values]
         ELSE IF Len(chunk) # 4 THEN [exc |-> "StructError", values |-> <<>>]
         ELSE read_joints(float_data, i + 4, Append(joint_values, unpack_f32(chunk)))

\* PositionData.read from the response on: float_data = response[108:-24],
\* the loop, return joint_values.
read_position(response) == read_joints(PyFromTo(response, 108, 24), 0, <<>>)

\* The responses: any length up to a few values past the 132 bytes around the
\* slice, and the 232 bytes that hold the 50 words asked for; 108 bytes of
\* header, then the floats scale/4, 2*scale/4, ... to the end.
PosInit ==
    /\ SessionIdle
    /\ CodecIdle
    /\ FitIdle
    /\ DecIdle
    /\ VarIdle
    /\ RcvIdle
    /\ \E len \in (0..150) \cup {232}, scale \in {1, -6} :
        joints = [phase |-> "call",
                  response |-> [k \in 1..len |->
                      IF k <= 108 THEN k % 256
                      ELSE pack_f32(scale * ((k - 109) \div 4 + 1), 4)[((k - 109) % 4) + 1]]]

PosRead ==
    /\ joints.phase = "call"
    /\ joints' = [phase |-> "returned", response |-> joints.response,
                  out |-> read_position(joints.response)]
    /\ UNCHANGED <<svars, dvars, fit, dec, var, rcv>>

PosNext == PosRead

SpecPos == PosInit /\ [][PosNext]_vars

----------------------------------------------------------------------------
(* Properties: the assignment table *)

\* The words an entry occupies, and the words of the window no entry occupies.
Words(e) == e.index .. (e.index + e.size - 1)
FreeWords(tab) == (1..ASG_MAX) \ UNION {Words(tab[n]) : n \in DOMAIN tab}

\* C1: every entry of the assignment table lies inside words 1..80, and no two
\* distinct entries share a word, whatever calls (failed ones included) came
\* before.
C1_TableDisjoint ==
    /\ \A n \in DOMAIN sys_vars :
        /\ 1 <= sys_vars[n].index
        /\ sys_vars[n].index + sys_vars[n].size - 1 <= ASG_MAX
    /\ \A n, m \in DOMAIN sys_vars :
        n # m => Words(sys_vars[n]) \cap Words(sys_vars[m]) = {}

\* Three entries, one of them ending at word 80, after a call that failed.
C1_Witness ==
    /\ Cardinality(DOMAIN sys_vars) = 3
    /\ \E n \in DOMAIN sys_vars : sys_vars[n].index + sys_vars[n].size - 1 = ASG_MAX
    /\ last.exc # NoExc

\* C2: on one connection at most one SETASG is sent per name; a set_asg call
\* for a name that has an entry sends and receives nothing, and a read or write
\* of such a name sends its data request only.
C2_OneSetAsgPerName ==
    /\ \A n \in Names : asgSent[n] <= 1
    /\ (last.op = "set_asg" /\ last.had) => (last.sent = 0 /\ last.recvs = 0)
    /\ (last.op \in {"read_sys_var", "write_sys_var"} /\ last.had) => last.sent <= 1

\* A second set_asg for a name assigned on this connection.
C2_Witness ==
    /\ last.op = "set_asg"
    /\ last.had
    /\ asgSent[last.name] = 1
    /\ last.exc = NoExc

\* C3: on a connected client, a set_asg whose wire exchange fails (the send
\* raises, the receive raises or times out) leaves no entry for the name.
C3_SetAsgAtomic ==
    (up /\ last.op = "set_asg" /\ last.exc \in {"SendError", "Timeout", "RecvError"})
        => last.name \notin DOMAIN sys_vars

\* C4: once the clear-prior-assignments frame has been sent on a connection,
\* the table holds a name only if a SETASG for it was sent on that connection.
C4_TableRebuilt ==
    hs = 3 => \A n \in DOMAIN sys_vars : asgSent[n] >= 1

\* C5: on a connected client, no operation sends a packet while the response
\* to an earlier packet has not been received.
C5_Alternate == up => ~last.overlap

\* The table has no free run of size words (auto-pick), or the explicit slot is
\* outside the window, runs past it, or meets an occupied word.
AllocFailure(tab, size, asg_num) ==
    IF asg_num = None
    THEN ~\E s \in 1..ASG_MAX : (s .. (s + size - 1)) \subseteq FreeWords(tab)
    ELSE \/ asg_num.num < 1
         \/ asg_num.num > ASG_MAX
         \/ asg_num.num + size - 1 > ASG_MAX
         \/ (asg_num.num .. (asg_num.num + size - 1)) \cap
               UNION {Words(tab[n]) : n \in DOMAIN tab} # {}

\* C6: set_asg for a new name, called where the allocation cannot succeed,
\* raises the allocation error, sends nothing and leaves the table (and the
\* channel) as they were; and no call that ended in an allocation error sent
\* or received anything.
C6_AllocErrorNoEffect ==
    /\ \A n \in AllocNames \ DOMAIN sys_vars, t \in AllocTypes, a \in AllocAsgNums,
          fail \in AllocFails :
            AllocFailure(sys_vars, t.size, a) =>
                LET c == set_asg(Client, n, t, a, fail) IN
                    /\ c.exc = "AllocError"
                    /\ c.sent = 0
                    /\ c.recvs = 0
                    /\ c.sys_vars = sys_vars
                    /\ c.pending = pending
                    /\ c.asgSent = asgSent
    /\ last.exc = "AllocError" => (last.sent = 0 /\ last.recvs = 0)

\* A set_asg for a new name has just failed with the allocation error.
C6_Witness ==
    /\ last.op = "set_asg"
    /\ ~last.had
    /\ last.exc = "AllocError"
    /\ last.name \notin DOMAIN sys_vars
    /\ DOMAIN sys_vars # {}

\* The starts of the runs of size words that lie in the window and hold no
\* occupied word.
FreeStarts(tab, size) ==
    {s \in 1..ASG_MAX : (s .. (s + size - 1)) \subseteq FreeWords(tab)}

\* C7: get_next_asg_num(size) returns the smallest start of a free run of size
\* words inside 1..80, and None exactly when the table has no such run.
C7_FirstFit ==
    fit.phase = "done" =>
        \A starts \in {FreeStarts(sys_vars, fit.size)} :
            IF starts = {} THEN fit.result = None
            ELSE /\ fit.result # None
                 /\ fit.result.num \in starts
                 /\ \A u \in starts : fit.result.num <= u

\* The scan found nothing although the table has at least size free words (it
\* has no contiguous run of them), and a request one word smaller fits.
C7_Witness ==
    /\ fit.phase = "done"
    /\ fit.result = None
    /\ Cardinality(FreeWords(sys_vars)) >= fit.size
    /\ FreeStarts(sys_vars, fit.size - 1) # {}
    /\ Cardinality(DOMAIN sys_vars) = 3

\* C8: on a connected client, a set_asg that returns normally returns the
\* name's slot (index, size, scale), the same on every call.
C8_ReturnsSlot ==
    (up /\ last.op = "set_asg" /\ last.exc = NoExc) =>
        /\ last.name \in DOMAIN sys_vars
        /\ last.ret = RetSlot(sys_vars[last.name])

----------------------------------------------------------------------------
(* Properties: the digital signal codec *)

\* C9: decoding a response whose payload region holds exactly the bytes
\* DigitalSignal.write packs for v, asked for Len(v) bits, returns v, at the
\* lengths 0, 1, 8, 47, 48, 49, 64 and 128.
C9_RoundTrip ==
    (dphase = "decoded" /\ Len(dvalue) \in CodecLengths) => dbits = dvalue

\* A value of 128 bits with both kinds of bits has been written and decoded.
C9_Witness ==
    /\ dphase = "decoded"
    /\ Len(dvalue) = 128
    /\ \E k \in 1..128 : dvalue[k]
    /\ \E k \in 1..128 : ~dvalue[k]
    /\ Len(dbits) = 128

\* The byte that holds values 8 * (i - 1) + 1 .. 8 * i of v, first value lowest.
ExpectedByte(v, i) ==
    LET weight(k) == IF 8 * (i - 1) + k <= Len(v) /\ v[8 * (i - 1) + k]
                     THEN Pow2(k - 1) ELSE 0
    IN weight(1) + weight(2) + weight(3) + weight(4)
        + weight(5) + weight(6) + weight(7) + weight(8)

\* The four marks of the large-write frame for count values and their payload.
LargeTypeByte(frame) == frame[31 + 1] = 128
LargeLength(frame, count) == Len(frame) = 56 + (count + 7) \div 8
LargeTextLength(frame, count) == frame[4 + 1] = (count + 7) \div 8
LargePayload(frame, v) ==
    /\ Len(frame) = 56 + (Len(v) + 7) \div 8
    /\ \A i \in 1..((Len(v) + 7) \div 8) : frame[56 + i] = ExpectedByte(v, i)

\* C10: for 48 < count <= 2040 the write sends a frame with message type 0x80
\* at offset 31, 56 header bytes followed by the packed payload, length
\* 56 + ceil(count / 8) and text length ceil(count / 8) at offset 4; for
\* 1 <= count <= 48 the frame sent has none of these.
C10_LargeFrame ==
    LET count == Len(dvalue) IN
    /\ (dphase \in {"sent", "raised"} /\ count > 48 /\ count <= 2040) =>
        /\ dphase = "sent"
        /\ LargeTypeByte(dframe)
        /\ LargeLength(dframe, count)
        /\ LargePayload(dframe, dvalue)
        /\ LargeTextLength(dframe, count)
    /\ (dphase \in {"sent", "raised"} /\ count <= 48) =>
        /\ dphase = "sent"
        /\ ~LargeTypeByte(dframe)
        /\ ~LargeLength(dframe, count)
        /\ ~LargePayload(dframe, dvalue)
        /\ ~LargeTextLength(dframe, count)

\* The example's write, [True, False] * 64: a 16-byte payload and text length 16.
C10_Witness ==
    /\ dphase = "sent"
    /\ dvalue = Alternating(128, TRUE)
    /\ Len(dframe) = 72
    /\ dframe[4 + 1] = 16
    /\ dframe[31 + 1] = 128

\* C15: for 1 <= count <= 48 the write sends a frame of exactly 56 bytes, with
\* the ceil(count / 8) packed bytes from offset 48 on, message type 0xC0 at
\* offset 31 and service code 0x07 at offset 42.
C15_SmallFrame ==
    LET count == Len(dvalue) IN
    (dphase \in {"sent", "raised"} /\ count >= 1 /\ count <= 48) =>
        /\ dphase = "sent"
        /\ Len(dframe) = 56
        /\ \A i \in 1..((count + 7) \div 8) : dframe[48 + i] = ExpectedByte(dvalue, i)
        /\ dframe[31 + 1] = 192
        /\ dframe[42 + 1] = 7

\* A small frame whose payload reaches the frame's last byte but two: 48
\* values, the last one set.
C15_Witness ==
    /\ dphase = "sent"
    /\ dvalue = OneBit(48, 48, TRUE)
    /\ Len(dframe) = 56
    /\ dframe[48 + 6] = 128

\* Where the payload of a sent frame lies: from offset 48 in a frame of 56
\* bytes, else after the 56 header bytes.
SentPayload(frame) ==
    IF Len(frame) = 56 THEN SubSeq(frame, 49, 48 + (Len(dvalue) + 7) \div 8)
    ELSE SubSeq(frame, 57, Len(frame))

\* C16: the payload of a frame sent for count >= 1 values has ceil(count / 8)
\* bytes, and bit j of its byte i is 1 iff 8 * i + j < count and value
\* 8 * i + j is true.
C16_BitPacking ==
    LET count == Len(dvalue) IN
    (dphase = "sent" /\ count >= 1) =>
        LET payload == SentPayload(dframe) IN
        /\ Len(payload) = (count + 7) \div 8
        /\ \A i \in 0..(Len(payload) - 1), j \in 0..7 :
            ((payload[i + 1] \div 2^j) % 2 = 1)
                <=> (8 * i + j < count /\ dvalue[8 * i + j + 1])

\* 49 values, all true: the seventh byte holds one value and seven bits past
\* the values.
C16_Witness ==
    /\ dphase = "sent"
    /\ dvalue = Constant(49, TRUE)
    /\ dframe[56 + 7] = 1

----------------------------------------------------------------------------
(* Properties: the value codec *)

\* The value codec has run the write (and, in phase "decoded", the read).
VarWritten == var.phase \in {"written", "raised", "decoded"}

\* text cut to width characters.
Truncated(text, width) == SubSeq(text, 1, IF Len(text) < width THEN Len(text) ELSE width)

\* C11: write_sys_var of an ASCII text to a STRING variable does not raise; it
\* sends a frame that carries 160 payload bytes, the text cut to 160 bytes and
\* padded with NUL, and decoding those bytes gives the text cut to 160
\* characters.
C11_StringWrite ==
    (VarWritten /\ var.vtype = STRING_TYPE /\ \A k \in 1..Len(var.text) : var.text[k] < 128) =>
        /\ var.exc = NoExc
        /\ Len(var.frame) >= 48 + 160
        /\ Len(var.payload) = 160
        /\ \A k \in 1..160 :
            var.payload[k] = (IF k <= Len(var.text) THEN var.text[k] ELSE 0)
        /\ var.phase = "decoded" =>
            /\ var.out.exc = NoExc
            /\ var.out.text = Truncated(var.text, 160)

\* C12: for an INT descriptor (2 words) with scale s # 0, the write encodes
\* the signed 32-bit integer nearest to value * s, and the read decodes raw / s.
C12_IntRounds ==
    (VarWritten /\ var.vtype.size = 2 /\ var.vtype.multiply # 0) =>
        /\ var.exc = NoExc
        /\ Len(var.payload) = 4
        /\ LET raw == unpack_i32(var.payload)
               off == raw * var.den - var.num * var.vtype.multiply
           IN /\ 2 * off <= var.den
              /\ -2 * off <= var.den
              /\ var.phase = "decoded" =>
                    /\ var.out.exc = NoExc
                    /\ var.out.num * var.vtype.multiply = raw * var.out.den

\* C19: for an INT descriptor (2 words) and an integer v, the write does not
\* raise; with scale 0 the payload is v as a little-endian signed 32-bit
\* integer and the read returns exactly v; with scale s # 0 the value read
\* differs from v by less than 1 / s.
C19_IntRoundTrip ==
    (VarWritten /\ var.vtype.size = 2 /\ var.den = 1) =>
        /\ var.exc = NoExc
        /\ var.vtype.multiply = 0 =>
            /\ var.payload = <<var.num % 256, (var.num \div 256) % 256,
                               (var.num \div 65536) % 256, (var.num \div 16777216) % 256>>
            /\ var.phase = "decoded" =>
                /\ var.out.exc = NoExc
                /\ var.out.den # 0
                /\ var.out.num = var.num * var.out.den
        /\ (var.vtype.multiply # 0 /\ var.phase = "decoded") =>
            /\ var.out.exc = NoExc
            /\ var.out.den > 0
            /\ LET off == var.out.num - var.num * var.out.den
               IN /\ off * var.vtype.multiply < var.out.den
                  /\ -off * var.vtype.multiply < var.out.den

----------------------------------------------------------------------------
(* Properties: the decoder *)

\* The text after the header: what follows the first 112 characters once " "
\* and ":" are taken out.
PayloadText(response) ==
    LET clean == SelectSeq(response, LAMBDA ch : ch \notin {" ", ":"})
    IN SubSeq(clean, 113, Len(clean))

\* The bit the payload text gives for position k (from 1): bit (k - 1) % 8 of
\* its byte (k - 1) \div 8, lowest first; false where the text ends or the
\* two characters are no hexadecimal number.
PayloadBit(text, k) ==
    LET i == (k - 1) \div 8
        pair == SubSeq(text, 2 * i + 1, IF 2 * i + 2 < Len(text) THEN 2 * i + 2 ELSE Len(text))
    IN /\ 2 * i < Len(text)
       /\ \A c \in 1..Len(pair) : \E d \in 1..16 : HexChars[d] = pair[c]
       /\ LET byte_val == IF Len(pair) = 1 THEN HexVal(pair[1])
                          ELSE HexVal(pair[1]) * 16 + HexVal(pair[2])
          IN (byte_val \div 2^((k - 1) % 8)) % 2 = 1

\* C13: for a response with at least one payload byte after the header and a
\* count >= 1, the decoder returns count booleans: the payload's bits, lowest
\* first, and false for every bit the payload does not cover or whose byte is
\* malformed.
C13_ZeroFill ==
    (dec.phase = "done" /\ dec.requested_bits >= 1 /\ Len(PayloadText(dec.response)) >= 2) =>
        /\ Len(dec.out) = dec.requested_bits
        /\ \A k \in 1..Len(dec.out) : dec.out[k] = PayloadBit(PayloadText(dec.response), k)

\* C18 as stated: for response bytes and any count, the decoder does not
\* raise, returns at most count booleans, and returns none only for a response
\* that is empty or has no byte after the header.
C18_NeverRaises ==
    (dec.phase = "done" /\ dec.kind = "bytes") =>
        /\ dec.exc = NoExc
        /\ Len(dec.out) <= dec.requested_bits
        /\ dec.out = <<>> => dec.nbytes <= 56

\* C18, for a count >= 1: for response bytes the decoder does not raise,
\* returns at most count booleans, and returns none only for a response that
\* is empty or has no byte after the header.
C18_NeverRaisesAsked ==
    (dec.phase = "done" /\ dec.kind = "bytes" /\ dec.requested_bits >= 1) =>
        /\ dec.exc = NoExc
        /\ Len(dec.out) <= dec.requested_bits
        /\ dec.out = <<>> => dec.nbytes <= 56

\* A response with payload decoded to fewer bits than its bytes hold, and a
\* response without payload decoded to nothing.
C18_Witness ==
    /\ dec.phase = "done"
    /\ dec.kind = "bytes"
    /\ dec.nbytes = 58
    /\ dec.requested_bits = 9
    /\ Len(dec.out) = 9
    /\ dec.out[9]

----------------------------------------------------------------------------
(* Properties: the receive helper and the register read *)

\* C14: read_sys_var returns no decoded value from a response of fewer than
\* 56 bytes; it raises.
C14_ShortResponseFails ==
    (rcv.phase = "decoded" /\ Len(rcv.packet) < 56) => rcv.out.exc # NoExc

\* The helper has ended: it returned or raised.
RecvEnded == rcv.phase \in {"returned", "raised", "decoded"}

\* C20: for a first packet of more than 56 bytes the helper returns exactly
\* the bytes that follow it, as many as offsets 46-47 declare, and nothing
\* while fewer have come; a receive that yields no bytes raises
\* ConnectionError; and once in its loop the helper ends.
C20_RecvComplete ==
    /\ []((rcv.phase \in {"returned", "decoded"} /\ Len(rcv.packet) > 56) =>
            rcv.ret = StreamBytes(0, count_field_of(rcv.packet)))
    /\ [](rcv.phase = "loop" =>
            /\ Len(rcv.payload) < count_field_of(rcv.packet)
            /\ rcv.ret = <<>>)
    /\ [](rcv.phase # "idle" =>
            (rcv.empty <=> (rcv.phase = "raised" /\ rcv.exc = "ConnectionError")))
    /\ (rcv.phase = "loop") ~> RecvEnded

\* A payload of 260 bytes has been returned after more than two receives.
C20_Witness ==
    /\ rcv.phase = "returned"
    /\ Len(rcv.packet) > 56
    /\ Len(rcv.ret) = 260
    /\ rcv.recvs > 3

----------------------------------------------------------------------------
(* Properties: the signal operations in the session *)

\* DigitalSignal.write([]) as a step of the session.
EmptyWrite ==
    \E fail \in Fails(2) : Leave(digital_write(Client, 0, fail), "digital_write", "")

\* C17: a write of an empty sequence sends no packet, receives nothing and
\* leaves the channel and the client's state as they were.
C17_EmptyWriteNoOp ==
    [][EmptyWrite =>
        /\ UNCHANGED <<sock, sys_vars, pending, asgSent, hs, sig, up>>
        /\ last'.sent = 0
        /\ last'.recvs = 0]_vars

\* A write on a connected client, with the signal objects on the open socket,
\* ended without an exception and without a packet: the empty one.
C17_Witness ==
    /\ last.op = "digital_write"
    /\ last.exc = NoExc
    /\ last.sent = 0
    /\ sock = "open"
    /\ sig = "current"
    /\ up

----------------------------------------------------------------------------
(* Properties: the handshake *)

\* connect() as a step of the session, for the probe's answer and the
\* environment's choice.
ConnectStep(first_byte, fail) == Leave(connect(Client, first_byte, fail), "connect", "")

\* C21: a connect call sends the probe first, then the protocol negotiation
\* frame, then the clear-prior-assignments frame, each followed by one
\* receive, and only then a SETASG; when the probe's answer does not start
\* with 1 it raises with the probe as the only frame sent and the table as it
\* was.  The signal objects get the socket, and the caller the session, only
\* after all three frames.
C21_HandshakeOrder ==
    /\ [](sig = "current" => hs = 3)
    /\ [](up => hs = 3)
    /\ [][\A first_byte \in {0, 1}, fail \in Fails(9) :
            (last'.op = "connect" /\ ConnectStep(first_byte, fail)) =>
                /\ last'.recvs = last'.sent
                /\ hs' = (IF last'.sent <= 3 THEN last'.sent ELSE 3)
                /\ \A n \in Names :
                    asgSent'[n] = (IF n = POS_NAME /\ last'.sent = 4 THEN 1 ELSE 0)
                /\ first_byte # 1 =>
                    /\ last'.exc # NoExc
                    /\ last'.sent <= 1
                    /\ sys_vars' = sys_vars
                /\ last'.exc = NoExc => hs' = 3]_vars

\* A connect went through: three handshake frames and the SETASG of the
\* position variable, four receives.
C21_Witness ==
    /\ last.op = "connect"
    /\ last.exc = NoExc
    /\ last.sent = 4
    /\ last.recvs = 4
    /\ hs = 3
    /\ asgSent[POS_NAME] = 1

----------------------------------------------------------------------------
(* Properties: the position read *)

\* C22: for a response of any length L PositionData.read does not raise and
\* returns floor(max(0, L - 132) / 4) values, the j-th one the float of bytes
\* 108 + 4j .. 108 + 4j + 3 of the response; the 1 to 3 bytes left over
\* before the last 24 are dropped.
C22_PositionValues ==
    joints.phase = "returned" =>
        LET len == Len(joints.response)
            n == (IF len > 132 THEN len - 132 ELSE 0) \div 4
        IN /\ joints.out.exc = NoExc
           /\ Len(joints.out.values) = n
           /\ \A j \in 0..(n - 1) :
                joints.out.values[j + 1]
                    = unpack_f32(SubSeq(joints.response, 108 + 4 * j + 1, 108 + 4 * j + 4))

\* A response of 143 bytes: two values, three bytes left over.
C22_Witness ==
    /\ joints.phase = "returned"
    /\ Len(joints.response) = 143
    /\ joints.out.exc = NoExc
    /\ Len(joints.out.values) = 2
    /\ joints.out.values[1] # joints.out.values[2]

----------------------------------------------------------------------------
(* Properties: the window of a connected session *)

\* The caller's entries of two words.
TwoWordNames == {n \in OwnNames : sys_vars[n].size = 2}

\* What set_asg, read_sys_var and write_sys_var for the STRING variable n give
\* when called in the present state, for each choice of the environment.
StringCalls(n) ==
    {set_asg(Client, n, STRING_TYPE, a, fail) :
        a \in SessionAsgNums, fail \in {Fail(0, "none"), Fail(2, "timeout")}}
        \cup {read_sys_var(Client, n, STRING_TYPE, Response(56, 0, 0), decodes, fail) :
                decodes \in BOOLEAN, fail \in {Fail(0, "none"), Fail(2, "timeout")}}
        \cup {write_sys_var(Client, n, STRING_TYPE, TRUE, fail) :
                fail \in {Fail(0, "none"), Fail(2, "timeout")}}

\* C23: once connect has returned, the position variable holds words 1..50;
\* every other entry lies in words 51..80, so at most 15 entries of two words
\* exist; and a call for an 80-word STRING variable that is not yet assigned
\* fails with the allocation error, nothing sent and the table as it was.
C23_PositionWindow ==
    up =>
        /\ POS_NAME \in DOMAIN sys_vars
        /\ sys_vars[POS_NAME].index = 1
        /\ sys_vars[POS_NAME].size = 50
        /\ \A n \in OwnNames :
            /\ sys_vars[n].index >= 51
            /\ sys_vars[n].index + sys_vars[n].size - 1 <= ASG_MAX
        /\ Cardinality(TwoWordNames) <= 15
        /\ \A n \in {NextName, "$AC_CRC_ACCO[1]"} \ DOMAIN sys_vars :
            \A c \in StringCalls(n) :
                /\ c.exc = "AllocError"
                /\ c.sent = 0
                /\ c.sys_vars = sys_vars

\* Fifteen two-word variables are assigned in a connected session, and the
\* call for the sixteenth has failed with the allocation error.
C23_Witness ==
    /\ up
    /\ Cardinality(TwoWordNames) = 15
    /\ last.op \in {"set_asg", "read_sys_var", "write_sys_var"}
    /\ last.name = FillName(16)
    /\ last.exc = "AllocError"

----------------------------------------------------------------------------
(* Properties: the type error of read_sys_var and write_sys_var *)

\* C24: when read_sys_var or write_sys_var raises the unsupported-type error
\* for a name that was not assigned before the call, the call has sent the
\* SETASG frame and the table holds the name's entry: the failed call has
\* consumed the entry's words.
C24_TypeErrorAfterAssign ==
    (/\ last.op \in {"read_sys_var", "write_sys_var"}
     /\ last.exc = "TypeError"
     /\ ~last.had) =>
        /\ last.name \in DOMAIN sys_vars
        /\ asgSent[last.name] >= 1
        /\ last.sent >= 1
        /\ Words(sys_vars[last.name]) \cap FreeWords(sys_vars) = {}
        /\ Words(sys_vars[last.name]) # {}

\* write_sys_var was refused for a 29-word descriptor on a new name, and the
\* name's 29 words are taken.
C24_Witness ==
    /\ last.op = "write_sys_var"
    /\ last.exc = "TypeError"
    /\ ~last.had
    /\ last.name \in DOMAIN sys_vars
    /\ sys_vars[last.name].size = 29
    /\ last.sent = 1

====
